---- MODULE Spec2Model ----
(***************************************************************************)
(* Model of the on-demand transcoding cache of src/app.py: the /api/convert *)
(* handler (api_convert), the pool task it submits (convert_and_cache),     *)
(* the `ongoing` table of futures, the cache directory and the scratch      *)
(* files.  Strings are sequences of one-character strings, so that          *)
(* make_cache_key is computed as the code computes it.                      *)
(***************************************************************************)
EXTENDS Integers, Sequences, FiniteSets, TLC

\* ------------------------------------------------------------------ bounds
\* number of api_convert requests that arrive under Spec (each runs once)
NumRequests == 2
\* number of api_convert requests that arrive under SpecSteady
SteadyRequests == 3
\* number of api_convert requests that arrive under SpecBurst
BurstRequests == 4
\* number of times the source's modifiedTime changes over a run
MaxEdits == 1
\* number of api_convert requests that arrive under SpecKey
KeyRequests == 2
\* number of api_convert requests that arrive under SpecClock
ClockRequests == 2
\* the last second the clock reaches
MaxClock == 1
\* number of api_convert requests that arrive under SpecPool
PoolRequests == 5

\* ------------------------------------------------------- program constants
MAX_WORKERS == 4

\* ------------------------------------------------------------ input values
\* the file ids requests ask for; <<>> is a request without fileId
FileIds == {<<"f">>}
NoFileId == <<>>
\* "" stands for metadata that has neither modifiedTime nor createdTime
Absent == <<>>
\* the values the source's timestamp takes
MTimes == {<<"1", ":", "0">>, <<"2", ":", "0">>}
\* file ids and timestamps, with ':' and '-' in them, that SpecKey derives
\* cache keys from
KeyFileIds == {<<"f">>, <<"g">>}
Stamps == {<<"1", ":", "0">>, <<"1", "-", "0">>, <<"2", ":", "0">>,
           <<"1", "0">>, <<":">>, <<"-">>}

Largest(S) == CHOOSE n \in S : \A m \in S : m <= n

\* the request slots; a specification lets the first n of them arrive
Requests == 1..Largest({NumRequests, SteadyRequests, BurstRequests,
                        KeyRequests, ClockRequests, PoolRequests})

VARIABLES
    modifiedTime,   \* the timestamp drive_file_metadata reports now
    edits,          \* how often modifiedTime has changed
    now,            \* int(time.time()), read when the metadata has no timestamp
    req,            \* req[r]: the state of request r's api_convert call
    execs,          \* execs[e]: the e-th future submitted to the executor
    ongoing,        \* the `ongoing` dict: cache key -> future
    cache           \* the files of CACHE_DIR: cache key -> file

vars == <<modifiedTime, edits, now, req, execs, ongoing, cache>>

\* ------------------------------------------------------------ pure helpers
Digit(d) == CASE d = 0 -> "0" [] d = 1 -> "1" [] d = 2 -> "2" [] d = 3 -> "3"
              [] d = 4 -> "4" [] d = 5 -> "5" [] d = 6 -> "6" [] d = 7 -> "7"
              [] d = 8 -> "8" [] d = 9 -> "9"

RECURSIVE IntToStr(_)
\* str(n) for an int n >= 0
IntToStr(n) == IF n < 10 THEN <<Digit(n)>>
               ELSE IntToStr(n \div 10) \o <<Digit(n % 10)>>

\* faulty variant of Replace: the character is removed
Remove(s, a, b) == SelectSeq(s, LAMBDA c : c # a)

\* s.replace(a, b) for one-character a and b
Replace(s, a, b) == [i \in 1..Len(s) |-> IF s[i] = a THEN b ELSE s[i]]

\* make_cache_key: an empty modified_time is falsy and takes the clock
make_cache_key(file_id, modified_time) ==
    LET safe_mod == IF modified_time # Absent
                    THEN Replace(modified_time, ":", "-")
                    ELSE IntToStr(now)
    IN  file_id \o <<"_">> \o safe_mod

\* str(CACHE_DIR / f"{key}.mp3")
CachePath(key) == <<"awb_mp3_cache/">> \o key \o <<".mp3">>

\* faulty variant of Exists: the directory is tested instead of the file
DirExists(key) == TRUE

\* Path.exists() of a cache file
Exists(key) == key \in DOMAIN cache

\* ------------------------------------------------------------------ state
NoFuture == 0
NoKey == <<>>
NoResponse == [status |-> 0, body |-> <<>>]
NoResult == [kind |-> "none", val |-> <<>>]

\* a request before it arrives.  checked_late and looked_late record, at the
\* cache check and at the table lookup, whether a request for the same key
\* that waited on a future had already returned
NewRequest == [pc |-> "new", file_id |-> NoFileId,
               modified_time |-> Absent, cache_key |-> NoKey,
               fut |-> NoFuture, submitted |-> FALSE,
               checked_late |-> FALSE, looked_late |-> FALSE,
               response |-> NoResponse]

\* the future executor.submit(convert_and_cache, file_id) returns, registered
\* under cache key k.  ran records that the transcoder was invoked
NewExec(file_id, k) ==
    [pc |-> "queued", file_id |-> file_id, submit_key |-> k, key |-> NoKey,
     input_tmp |-> "none", out_tmp |-> "none", ran |-> FALSE,
     result |-> NoResult]

NoFiles == [k \in {} |-> 0]

\* the state after the module is loaded: nothing submitted, CACHE_DIR empty;
\* n requests are going to arrive
InitAt(n, t) ==
    /\ modifiedTime = t
    /\ edits = 0
    /\ now = 0
    /\ req = [r \in Requests |->
                IF r <= n THEN NewRequest ELSE [NewRequest EXCEPT !.pc = "unused"]]
    /\ execs = <<>>
    /\ ongoing = NoFiles
    /\ cache = NoFiles

InitWith(n) == InitAt(n, <<"1", ":", "0">>)

Init == InitWith(NumRequests)

InitSteady == InitWith(SteadyRequests)

InitBurst == InitWith(BurstRequests)

Done(e) == execs[e].pc = "done"
Running(e) == execs[e].pc \notin {"queued", "done"}

\* ------------------------------------------------------------ environment
\* the source is edited: its timestamp changes to another one
EditSource ==
    /\ edits < MaxEdits
    /\ \E t \in MTimes \ {modifiedTime} : modifiedTime' = t
    /\ edits' = edits + 1
    /\ UNCHANGED <<now, req, execs, ongoing, cache>>

\* -------------------------------------------------------------- api_convert
Response(status, body) == [status |-> status, body |-> body]

\* the future's outcome as fut.result() hands it to the request
Failed(reason) == [kind |-> "exc", val |-> <<reason>>]
Returned(path) == [kind |-> "path", val |-> path]

\* requests arrive in the order of their numbers (they are interchangeable)
Arrived(r) == \A q \in 1..(r - 1) : req[q].pc # "new"

\* another request for key k that waited on a future has run its finally
\* block and returned
FinishedFor(k, r) ==
    \E q \in Requests \ {r} :
        req[q].pc = "done" /\ req[q].cache_key = k /\ req[q].fut # NoFuture

\* lines 141-143: a request without fileId is answered 400
BadRequest(r) ==
    /\ req[r].pc = "new" /\ Arrived(r)
    /\ req' = [req EXCEPT ![r].pc = "done",
                           ![r].response = Response(400, <<"fileId required">>)]
    /\ UNCHANGED <<modifiedTime, edits, now, execs, ongoing, cache>>

\* lines 144-147: drive_file_metadata raises, the request is answered 500
MetaFetchFails(r) ==
    /\ req[r].pc = "new" /\ Arrived(r)
    /\ \E f \in FileIds :
         req' = [req EXCEPT ![r].pc = "done", ![r].file_id = f,
                            ![r].response = Response(500, <<"meta">>)]
    /\ UNCHANGED <<modifiedTime, edits, now, execs, ongoing, cache>>

\* lines 144-150: the metadata of one of the files ids arrives and the cache
\* key is derived
FetchMetaOf(r, ids) ==
    /\ req[r].pc = "new" /\ Arrived(r)
    /\ \E f \in ids :
         req' = [req EXCEPT ![r].pc = "check", ![r].file_id = f,
                            ![r].modified_time = modifiedTime,
                            ![r].cache_key = make_cache_key(f, modifiedTime)]
    /\ UNCHANGED <<modifiedTime, edits, now, execs, ongoing, cache>>

FetchMeta(r) == FetchMetaOf(r, FileIds)

\* lines 151-152: the artifact lookup
CheckCache(r) ==
    /\ req[r].pc = "check"
    /\ req' = IF Exists(req[r].cache_key)
              THEN [req EXCEPT ![r].pc = "done",
                               ![r].response =
                                   Response(200, CachePath(req[r].cache_key))]
              ELSE [req EXCEPT ![r].pc = "lock",
                               ![r].checked_late =
                                   FinishedFor(req[r].cache_key, r)]
    /\ UNCHANGED <<modifiedTime, edits, now, execs, ongoing, cache>>

\* ongoing[k] = e
Register(tbl, k, e) ==
    [x \in DOMAIN tbl \cup {k} |-> IF x = k THEN e ELSE tbl[x]]

\* ongoing.pop(k, None)
Pop(tbl, k) == [x \in DOMAIN tbl \ {k} |-> tbl[x]]

\* faulty variant of MustSubmit: the table is not consulted
AlwaysSubmit(k) == TRUE

\* line 155: fut is None
MustSubmit(k) == k \notin DOMAIN ongoing

\* lines 153-157: under ongoing_lock, take the registered future or submit
\* convert_and_cache and register its future
LookupAt(r, pc) ==
    LET k == req[r].cache_key
        e == Len(execs) + 1
    IN  /\ req[r].pc = pc
        /\ IF MustSubmit(k)
           THEN /\ execs' = Append(execs, NewExec(req[r].file_id, k))
                /\ ongoing' = Register(ongoing, k, e)
                /\ req' = [req EXCEPT ![r].pc = "wait", ![r].fut = e,
                                      ![r].submitted = TRUE,
                                      ![r].looked_late = FinishedFor(k, r)]
           ELSE /\ req' = [req EXCEPT ![r].pc = "wait", ![r].fut = ongoing[k],
                                      ![r].looked_late = FinishedFor(k, r)]
                /\ UNCHANGED <<execs, ongoing>>
        /\ UNCHANGED <<modifiedTime, edits, now, cache>>

\* lines 153-157 as one step: nothing inside the with block waits
Lookup(r) == LookupAt(r, "lock")

\* send_file(path): 200 with the file, or an error when no such file exists
SendFile(path) ==
    IF \E k \in DOMAIN cache : CachePath(k) = path
    THEN Response(200, path)
    ELSE Response(500, <<"no such file">>)

\* faulty variant of Answer: the request serves the path of its own cache key
\* instead of the path its future returned
AnswerOwnPath(r, res) ==
    IF res.kind = "path" THEN SendFile(CachePath(req[r].cache_key))
    ELSE Response(500, res.val)

\* lines 159-160: what the request answers once fut.result() has the outcome
\* res of its future; an exception it raises is answered 500
Answer(r, res) ==
    IF res.kind = "path" THEN SendFile(res.val) ELSE Response(500, res.val)

\* faulty variant of Cleanup: the pop stands after send_file in the try
\* block, so it is skipped when fut.result() raises
CleanupOnSuccess(r) ==
    IF Done(req[r].fut) /\ execs[req[r].fut].result.kind = "path"
    THEN Pop(ongoing, req[r].cache_key) ELSE ongoing

\* lines 161-164: the table after the request's finally block
Cleanup(r) ==
    IF Done(req[r].fut) THEN Pop(ongoing, req[r].cache_key) ELSE ongoing

\* lines 158-164: fut.result() returns or raises, the response is built and
\* the finally block pops the request's cache key.  Building the response
\* touches nothing shared, so it is one step with the finally block
Await(r) ==
    /\ req[r].pc = "wait"
    /\ Done(req[r].fut)
    /\ req' = [req EXCEPT ![r].pc = "done",
                           ![r].response = Answer(r, execs[req[r].fut].result)]
    /\ ongoing' = Cleanup(r)
    /\ UNCHANGED <<modifiedTime, edits, now, execs, cache>>

\* -------------------------------------------------------- convert_and_cache
Execs == 1..Len(execs)

\* a file of CACHE_DIR
File(content) == [content |-> content]

\* faulty variant of StartExec: a thread that has run a task is not used
\* again
StartExecOnce(e) ==
    /\ execs[e].pc = "queued"
    /\ Cardinality({x \in Execs : execs[x].pc # "queued"}) < MAX_WORKERS
    /\ \A x \in 1..(e - 1) : execs[x].pc # "queued"
    /\ execs' = [execs EXCEPT ![e].pc = "meta"]
    /\ UNCHANGED <<modifiedTime, edits, now, req, ongoing, cache>>

\* faulty variant of StartExec: every submitted task gets a thread at once
StartExecUnbounded(e) ==
    /\ execs[e].pc = "queued"
    /\ execs' = [execs EXCEPT ![e].pc = "meta"]
    /\ UNCHANGED <<modifiedTime, edits, now, req, ongoing, cache>>

\* the executor runs a queued task when one of its MAX_WORKERS threads is free
StartExec(e) ==
    /\ execs[e].pc = "queued"
    /\ Cardinality({x \in Execs : Running(x)}) < MAX_WORKERS
    /\ \A x \in 1..(e - 1) : execs[x].pc # "queued"
    /\ execs' = [execs EXCEPT ![e].pc = "meta"]
    /\ UNCHANGED <<modifiedTime, edits, now, req, ongoing, cache>>

\* faulty variant of WorkerMetaFails: the metadata is fetched after the download, so
\* the failure leaves the downloaded input behind
WorkerMetaFailsLate(e) ==
    /\ execs[e].pc = "meta"
    /\ execs' = [execs EXCEPT ![e].pc = "done", ![e].input_tmp = "complete",
                               ![e].result = Failed("meta")]
    /\ UNCHANGED <<modifiedTime, edits, now, req, ongoing, cache>>

\* line 122: drive_file_metadata raises, the future holds the exception
WorkerMetaFails(e) ==
    /\ execs[e].pc = "meta"
    /\ execs' = [execs EXCEPT ![e].pc = "done", ![e].result = Failed("meta")]
    /\ UNCHANGED <<modifiedTime, edits, now, req, ongoing, cache>>

\* lines 122-125: the worker derives its own cache key
WorkerMeta(e) ==
    /\ execs[e].pc = "meta"
    /\ execs' = [execs EXCEPT
                    ![e].pc = "exists",
                    ![e].key = make_cache_key(execs[e].file_id, modifiedTime)]
    /\ UNCHANGED <<modifiedTime, edits, now, req, ongoing, cache>>

\* faulty variant of AlreadyCached: the worker does not re-check the cache
NeverCached(e) == FALSE

\* line 126: cached_mp3.exists()
AlreadyCached(e) == Exists(execs[e].key)

\* faulty variant of WorkerCheck: the source is downloaded before the
\* artifact is looked up
WorkerCheckLate(e) ==
    /\ execs[e].pc = "exists"
    /\ execs' = IF AlreadyCached(e)
                THEN [execs EXCEPT ![e].pc = "done",
                                   ![e].input_tmp = "complete",
                                   ![e].result = Returned(CachePath(execs[e].key))]
                ELSE [execs EXCEPT ![e].pc = "download"]
    /\ UNCHANGED <<modifiedTime, edits, now, req, ongoing, cache>>

\* lines 126-127: the re-check of the artifact
WorkerCheck(e) ==
    /\ execs[e].pc = "exists"
    /\ execs' = IF AlreadyCached(e)
                THEN [execs EXCEPT ![e].pc = "done",
                                   ![e].result = Returned(CachePath(execs[e].key))]
                ELSE [execs EXCEPT ![e].pc = "download"]
    /\ UNCHANGED <<modifiedTime, edits, now, req, ongoing, cache>>

\* lines 97-98: the download request fails before a scratch file is created
DownloadRefused(e) ==
    /\ execs[e].pc = "download"
    /\ execs' = [execs EXCEPT ![e].pc = "done", ![e].result = Failed("fetch")]
    /\ UNCHANGED <<modifiedTime, edits, now, req, ongoing, cache>>

\* the input scratch file after iter_content raised part-way: the finally
\* of lines 105-106 closes the file and nothing removes it
AfterBrokenDownload == "partial"

\* lines 99-106: streaming fails after the scratch file was created
DownloadBreaks(e) ==
    /\ execs[e].pc = "download"
    /\ execs' = [execs EXCEPT ![e].pc = "done",
                               ![e].input_tmp = AfterBrokenDownload,
                               ![e].result = Failed("fetch")]
    /\ UNCHANGED <<modifiedTime, edits, now, req, ongoing, cache>>

\* lines 128-131: the source is downloaded and the output scratch file created
Download(e) ==
    /\ execs[e].pc = "download"
    /\ execs' = [execs EXCEPT ![e].pc = "transcode",
                               ![e].input_tmp = "complete",
                               ![e].out_tmp = "empty"]
    /\ UNCHANGED <<modifiedTime, edits, now, req, ongoing, cache>>

\* lines 110-111: ffmpeg is started and writes its output
TranscodeRuns(e) ==
    /\ execs[e].pc = "transcode"
    /\ execs' = [execs EXCEPT ![e].pc = "writing", ![e].ran = TRUE,
                               ![e].out_tmp = "partial"]
    /\ UNCHANGED <<modifiedTime, edits, now, req, ongoing, cache>>

\* faulty variant of TranscodeFails: the failed output is not removed
TranscodeFailsKeepsOutput(e) ==
    /\ execs[e].pc = "writing"
    /\ execs' = [execs EXCEPT ![e].pc = "done",
                               ![e].input_tmp = "none",
                               ![e].result = Failed("transcode")]
    /\ UNCHANGED <<modifiedTime, edits, now, req, ongoing, cache>>

\* lines 112-115 and 135-137: ffmpeg exits non-zero; its output is removed,
\* the finally block removes the input and the future holds the exception
TranscodeFails(e) ==
    /\ execs[e].pc = "writing"
    /\ execs' = [execs EXCEPT ![e].pc = "done",
                               ![e].out_tmp = "none",
                               ![e].input_tmp = "none",
                               ![e].result = Failed("transcode")]
    /\ UNCHANGED <<modifiedTime, edits, now, req, ongoing, cache>>

\* lines 111-112: ffmpeg exits 0 with its output complete
TranscodeDone(e) ==
    /\ execs[e].pc = "writing"
    /\ execs' = [execs EXCEPT ![e].pc = "install", ![e].out_tmp = "complete"]
    /\ UNCHANGED <<modifiedTime, edits, now, req, ongoing, cache>>

\* faulty variant of Replaced: the output is copied into place, so the cache file is
\* visible while it is written
CopiedInPlace(e) == Register(cache, execs[e].key, File("partial"))

\* os.replace(out_tmp_path, cached_mp3): the directory after the rename
Replaced(e) == Register(cache, execs[e].key, File(execs[e].out_tmp))

\* faulty variant of Install: the rename refuses a destination that exists
InstallUnlessExists(e) ==
    /\ execs[e].pc = "install"
    /\ IF Exists(execs[e].key)
       THEN /\ execs' = [execs EXCEPT ![e].pc = "done", ![e].input_tmp = "none",
                                       ![e].result = Failed("exists")]
            /\ UNCHANGED cache
       ELSE /\ cache' = Replaced(e)
            /\ execs' = [execs EXCEPT ![e].pc = "return", ![e].out_tmp = "none"]
    /\ UNCHANGED <<modifiedTime, edits, now, req, ongoing>>

\* line 133: the output is renamed into the cache directory
Install(e) ==
    /\ execs[e].pc = "install"
    /\ cache' = Replaced(e)
    /\ execs' = [execs EXCEPT ![e].pc = "return", ![e].out_tmp = "none"]
    /\ UNCHANGED <<modifiedTime, edits, now, req, ongoing>>

\* lines 134-137: the path is returned through the finally block, which
\* removes the input scratch file
Return(e) ==
    /\ execs[e].pc = "return"
    /\ execs' = [execs EXCEPT ![e].pc = "done", ![e].input_tmp = "none",
                               ![e].result = Returned(CachePath(execs[e].key))]
    /\ UNCHANGED <<modifiedTime, edits, now, req, ongoing, cache>>

\* ------------------------------------------------------------ specification
Next ==
    \/ EditSource
    \/ \E r \in Requests : BadRequest(r)
    \/ \E r \in Requests : MetaFetchFails(r)
    \/ \E r \in Requests : FetchMeta(r)
    \/ \E r \in Requests : CheckCache(r)
    \/ \E r \in Requests : Lookup(r)
    \/ \E r \in Requests : Await(r)
    \/ \E e \in Execs : StartExec(e)
    \/ \E e \in Execs : WorkerMetaFails(e)
    \/ \E e \in Execs : WorkerMeta(e)
    \/ \E e \in Execs : WorkerCheck(e)
    \/ \E e \in Execs : DownloadRefused(e)
    \/ \E e \in Execs : DownloadBreaks(e)
    \/ \E e \in Execs : Download(e)
    \/ \E e \in Execs : TranscodeRuns(e)
    \/ \E e \in Execs : TranscodeFails(e)
    \/ \E e \in Execs : TranscodeDone(e)
    \/ \E e \in Execs : Install(e)
    \/ \E e \in Execs : Return(e)

Spec == Init /\ [][Next]_vars

\* requests for a source that is not edited meanwhile and whose metadata the
\* handler can fetch
NextSteady ==
    \/ \E r \in Requests : FetchMeta(r)
    \/ \E r \in Requests : CheckCache(r)
    \/ \E r \in Requests : Lookup(r)
    \/ \E r \in Requests : Await(r)
    \/ \E e \in Execs : StartExec(e)
    \/ \E e \in Execs : WorkerMetaFails(e)
    \/ \E e \in Execs : WorkerMeta(e)
    \/ \E e \in Execs : WorkerCheck(e)
    \/ \E e \in Execs : DownloadRefused(e)
    \/ \E e \in Execs : DownloadBreaks(e)
    \/ \E e \in Execs : Download(e)
    \/ \E e \in Execs : TranscodeRuns(e)
    \/ \E e \in Execs : TranscodeFails(e)
    \/ \E e \in Execs : TranscodeDone(e)
    \/ \E e \in Execs : Install(e)
    \/ \E e \in Execs : Return(e)

SpecSteady == InitSteady /\ [][NextSteady]_vars

\* the same with a larger burst of requests
SpecBurst == InitBurst /\ [][NextSteady]_vars

\* the timestamp changes to any other of Stamps
EditStamp ==
    /\ edits < MaxEdits
    /\ \E t \in Stamps \ {modifiedTime} : modifiedTime' = t
    /\ edits' = edits + 1
    /\ UNCHANGED <<now, req, execs, ongoing, cache>>

\* lines 144-150 of a request for one of KeyFileIds
DeriveKey(r) == FetchMetaOf(r, KeyFileIds)

InitKey == \E t \in Stamps : InitAt(KeyRequests, t)

NextKey ==
    \/ EditStamp
    \/ \E r \in Requests : DeriveKey(r)

\* requests derive cache keys from the file ids and timestamps of
\* KeyFileIds and Stamps
SpecKey == InitKey /\ [][NextKey]_vars

\* line 118, time.time(): a second passes
Tick ==
    /\ now < MaxClock
    /\ now' = now + 1
    /\ UNCHANGED <<modifiedTime, edits, req, execs, ongoing, cache>>

\* the source's metadata holds neither modifiedTime nor createdTime
InitClock == InitAt(ClockRequests, Absent)

NextClock ==
    \/ Tick
    \/ NextSteady

\* requests for a source without timestamps, while the clock runs
SpecClock == InitClock /\ [][NextClock]_vars

\* the file the r-th request under SpecPool asks for: every request its own
PoolFileId(r) == <<"f">> \o IntToStr(r)

\* lines 144-152 in one step: the metadata arrives, the cache key is derived
\* and the artifact is looked up.  No step of SpecPool changes the source's
\* timestamp, so the fetch could as well happen right before the lookup
Enter(r) ==
    /\ req[r].pc = "new" /\ Arrived(r)
    /\ LET f == PoolFileId(r)
           k == make_cache_key(f, modifiedTime)
       IN  req' = IF Exists(k)
                  THEN [req EXCEPT ![r].pc = "done", ![r].file_id = f,
                                   ![r].modified_time = modifiedTime,
                                   ![r].cache_key = k,
                                   ![r].response = Response(200, CachePath(k))]
                  ELSE [req EXCEPT ![r].pc = "lock", ![r].file_id = f,
                                   ![r].modified_time = modifiedTime,
                                   ![r].cache_key = k]
    /\ UNCHANGED <<modifiedTime, edits, now, execs, ongoing, cache>>

\* no request is inside a with ongoing_lock block
LockFree == \A q \in Requests : req[q].pc \notin {"locked", "cleanup"}

\* line 153: the request enters the with block once the lock is free
Acquire(r) ==
    /\ req[r].pc = "lock"
    /\ LockFree
    /\ req' = [req EXCEPT ![r].pc = "locked"]
    /\ UNCHANGED <<modifiedTime, edits, now, execs, ongoing, cache>>

\* lines 154-157: the body of the with block; leaving it releases the lock
LookupHeld(r) == LookupAt(r, "locked")

\* lines 158-162: fut.result() returns or raises, the response is built and
\* the finally block enters its with block once the lock is free.  A future
\* that is done stays done, so waiting for it and then for the lock is
\* waiting for both
AcquireFinally(r) ==
    /\ req[r].pc = "wait"
    /\ Done(req[r].fut)
    /\ LockFree
    /\ req' = [req EXCEPT ![r].pc = "cleanup",
                           ![r].response = Answer(r, execs[req[r].fut].result)]
    /\ UNCHANGED <<modifiedTime, edits, now, execs, ongoing, cache>>

\* lines 163-164: the pop; leaving the block releases the lock and the
\* response goes out
CleanupHeld(r) ==
    /\ req[r].pc = "cleanup"
    /\ ongoing' = Cleanup(r)
    /\ req' = [req EXCEPT ![r].pc = "done"]
    /\ UNCHANGED <<modifiedTime, edits, now, execs, cache>>

InitPool == InitWith(PoolRequests)

\* the executions of SpecPool end at the first call that can raise, line 122
NextPool ==
    \/ \E r \in Requests : Enter(r)
    \/ \E r \in Requests : Lookup(r)
    \/ \E r \in Requests : Await(r)
    \/ \E e \in Execs : StartExec(e)
    \/ \E e \in Execs : WorkerMetaFails(e)

\* more requests, each for a file of its own, than the pool has threads
SpecPool == InitPool /\ [][NextPool]_vars

NextLocked ==
    \/ \E r \in Requests : Enter(r)
    \/ \E r \in Requests : Acquire(r)
    \/ \E r \in Requests : LookupHeld(r)
    \/ \E r \in Requests : AcquireFinally(r)
    \/ \E r \in Requests : CleanupHeld(r)
    \/ \E e \in Execs : StartExec(e)
    \/ \E e \in Execs : WorkerMetaFails(e)

\* the same with the lock of lines 153 and 162 taken and released in steps
\* of its own, and a scheduler that lets some thread run whenever one can
SpecPoolFair == InitPool /\ [][NextLocked]_vars /\ WF_vars(NextLocked)

\* ------------------------------------------------------------------- claims
\* the executions api_convert submitted under cache key k
SubmittedFor(k) == {e \in Execs : execs[e].submit_key = k}

\* the cache keys requests have derived so far
RequestKeys == {req[r].cache_key : r \in {q \in Requests : req[q].pc \notin {"new", "unused"}}}

\* request r got past the cache-miss check of line 151
PassedMiss(r) == req[r].pc \in {"lock", "wait"} \/ req[r].fut # NoFuture

\* request r has taken a future at lines 153-157
LookedUp(r) == req[r].fut # NoFuture

\* request r took a future another request had registered
Joined(r) == LookedUp(r) /\ ~req[r].submitted

\* the response a request owes to the outcome res of its future
Owed(res) == IF res.kind = "path" THEN Response(200, res.val)
             ELSE Response(500, res.val)

\* C1: for every cache key, at most one execution submitted for that key is
\* pending or running at any time.
C1_OnePerKey ==
    \A k \in RequestKeys :
        Cardinality({e \in SubmittedFor(k) : ~Done(e)}) <= 1

\* C2: a request that finds an entry for its key submits nothing (every
\* execution has exactly one submitter), waits on the future registered under
\* its key, and ends with that future's outcome, so requests sharing a future
\* end alike.
C2_JoinerGetsOutcome ==
    /\ Len(execs) = Cardinality({r \in Requests : req[r].submitted})
    /\ \A r \in Requests :
         Joined(r) =>
            /\ req[r].fut \in Execs
            /\ execs[req[r].fut].submit_key = req[r].cache_key
            /\ req[r].pc = "done" =>
                  /\ Done(req[r].fut)
                  /\ req[r].response = Owed(execs[req[r].fut].result)
    /\ \A r, q \in Requests :
         (req[r].pc = "done" /\ req[q].pc = "done" /\ LookedUp(r)
          /\ req[r].fut = req[q].fut) => req[r].response = req[q].response

\* C2 witness: two finished requests shared one future, one of them joined it
C2_Witness ==
    \E r, q \in Requests :
        /\ r # q /\ Joined(r) /\ req[q].fut = req[r].fut
        /\ req[r].pc = "done" /\ req[q].pc = "done"
        /\ req[r].response.status = 200

\* the finished requests of the group that got past the miss check for key k
Group(k) == {r \in Requests : req[r].cache_key = k /\ PassedMiss(r)}

SameResponses(G) == \A r, q \in G : req[r].response = req[q].response

\* C3 as claimed: when the requests for a key have all passed the cache-miss
\* check before any of them returned, convert_and_cache ran once for the key
\* and they all got the same response.
C3_AsClaimed ==
    \A k \in RequestKeys :
        (/\ Cardinality(Group(k)) >= 2
         /\ \A r \in Group(k) : req[r].pc = "done" /\ ~req[r].checked_late)
        => (Cardinality(SubmittedFor(k)) = 1 /\ SameResponses(Group(k)))

\* C3 amended: when the requests for a key have all made their lookup in
\* `ongoing` before any of them ran its finally block, convert_and_cache ran
\* once for the key and they all got the same response.
C3_SingleFlight ==
    \A k \in RequestKeys :
        (/\ Cardinality(Group(k)) >= 2
         /\ \A r \in Group(k) : req[r].pc = "done" /\ ~req[r].looked_late)
        => (Cardinality(SubmittedFor(k)) = 1 /\ SameResponses(Group(k)))

\* C3 witness: two requests looked up together and have both returned
C3_Witness ==
    \E k \in RequestKeys :
        /\ Cardinality(Group(k)) >= 2
        /\ \A r \in Group(k) : req[r].pc = "done" /\ ~req[r].looked_late
        /\ Cardinality(SubmittedFor(k)) = 1

\* no execution has failed
NoFailure == \A e \in Execs : execs[e].result.kind # "exc"

\* the executions that invoked the transcoder
Transcoded == {e \in Execs : execs[e].ran}

\* C4: with no artifact at the start, an unchanged modifiedTime and no
\* failure, the requests for a file cause one transcoder invocation in all,
\* and every request that returned got the same artifact path.
C4_OneTranscode ==
    (NoFailure /\ edits = 0) =>
        /\ Cardinality(Transcoded) <= 1
        /\ \A r \in Requests :
             (req[r].pc = "done" /\ req[r].cache_key # NoKey) =>
                /\ Cardinality(Transcoded) = 1
                /\ req[r].response =
                      Response(200, CachePath(make_cache_key(req[r].file_id,
                                                             modifiedTime)))

\* C4 witness: one request was served by a conversion, a later one from the
\* cache, and a second execution was submitted meanwhile
C4_Witness ==
    /\ NoFailure /\ edits = 0
    /\ Len(execs) >= 2 /\ \A e \in Execs : Done(e)
    /\ \E r, q \in Requests :
         /\ req[r].pc = "done" /\ LookedUp(r)
         /\ req[q].pc = "done" /\ req[q].cache_key # NoKey /\ ~LookedUp(q)

\* C5: a request that looks up `ongoing` after the registered work has
\* completed never takes that completed future from the table.
C5_NoReplay ==
    [][\A r \in Requests :
         (req[r].pc = "lock" /\ req'[r].pc = "wait" /\ ~req'[r].submitted)
         => ~Done(req'[r].fut)]_vars

\* C6: a file of the cache directory always holds a complete transcoder
\* output.
C6_OnlyComplete == \A k \in DOMAIN cache : cache[k].content = "complete"

\* C6 witness: a request is about to check for the artifact a transcoder is
\* writing
C6_Witness ==
    \E e \in Execs :
        /\ execs[e].pc = "writing" /\ execs[e].out_tmp = "partial"
        /\ \E r \in Requests :
             req[r].pc = "check" /\ req[r].cache_key = execs[e].key

\* execution e renamed its output into the cache directory
Installed(e) ==
    execs[e].ran /\ (execs[e].pc = "return" \/ execs[e].result.kind = "path")

\* C7: the artifact for a key is installed at most once.
C7_InstalledOnce ==
    \A e, x \in Execs :
        (Installed(e) /\ Installed(x) /\ execs[e].key = execs[x].key) => e = x

\* C8: an execution that ended after the download, by success or by a
\* transcoder failure, left no scratch file.
C8_NoScratchAfterTranscode ==
    \A e \in Execs :
        (Done(e) /\ execs[e].ran) =>
            (execs[e].input_tmp = "none" /\ execs[e].out_tmp = "none")

\* C8 witness: one execution ended in a transcoder failure, one in success
C8_Witness ==
    \E e, x \in Execs :
        /\ Done(e) /\ execs[e].ran /\ execs[e].result = Failed("transcode")
        /\ Done(x) /\ execs[x].ran /\ execs[x].result.kind = "path"

\* C9: an execution that ended left no scratch file, also when the download
\* failed part-way.
C9_NoScratchAfterFailure ==
    \A e \in Execs :
        Done(e) => (execs[e].input_tmp = "none" /\ execs[e].out_tmp = "none")

\* C10: a failing metadata fetch in api_convert answers 500, submits nothing
\* and leaves `ongoing` and the cache directory alone; one in
\* convert_and_cache creates no scratch and no cache file and is answered 500
\* to every request that waits on the execution.
C10_MetaFailure ==
    [][/\ \A r \in Requests :
            (req[r].pc = "new" /\ req'[r].file_id # NoFileId
             /\ req'[r].pc = "done")
            => /\ req'[r].response.status = 500
               /\ UNCHANGED <<execs, ongoing, cache>>
       /\ \A e \in Execs :
            (execs[e].pc = "meta" /\ execs'[e].pc = "done")
            => /\ execs'[e].result.kind = "exc"
               /\ execs'[e].input_tmp = "none" /\ execs'[e].out_tmp = "none"
               /\ cache' = cache
       /\ \A r \in Requests :
            (req[r].pc = "wait" /\ req'[r].pc = "done"
             /\ execs[req[r].fut].result = Failed("meta"))
            => /\ req'[r].response.status = 500
               /\ cache' = cache]_vars

\* C10 witness: one request failed at its own metadata fetch, another got
\* the failure of its execution's metadata fetch
C10_Witness ==
    /\ \E r \in Requests :
         req[r].response = Response(500, <<"meta">>) /\ ~LookedUp(r)
    /\ \E r \in Requests :
         /\ LookedUp(r) /\ req[r].pc = "done"
         /\ execs[req[r].fut].result = Failed("meta")
         /\ req[r].response.status = 500
    /\ cache = NoFiles

\* requests r and q have derived cache keys for the same file id from
\* timestamps that were present
KeyPair(r, q) ==
    /\ req[r].cache_key # NoKey /\ req[q].cache_key # NoKey
    /\ req[r].file_id = req[q].file_id
    /\ req[r].modified_time # Absent /\ req[q].modified_time # Absent

\* timestamps s and t are equal but for ':' in one where the other has '-'
SameButColons(s, t) ==
    /\ Len(s) = Len(t)
    /\ \A i \in 1..Len(s) : s[i] = t[i] \/ {s[i], t[i]} = {":", "-"}

\* C11 as claimed: for one file id, two present timestamps give the same
\* cache key if and only if they are the same timestamp.
C11_AsClaimed ==
    \A r, q \in Requests :
        KeyPair(r, q) =>
            ((req[r].cache_key = req[q].cache_key)
             <=> (req[r].modified_time = req[q].modified_time))

\* C11 amended: for one file id, two present timestamps give the same cache
\* key if and only if they are equal up to ':' standing where the other has
\* '-'; equal timestamps always give equal keys.
C11_KeysSeparate ==
    \A r, q \in Requests :
        KeyPair(r, q) =>
            ((req[r].cache_key = req[q].cache_key)
             <=> SameButColons(req[r].modified_time, req[q].modified_time))

\* C11 witness: keys were derived for one file id from two different
\* timestamps and are different, one of the timestamps holding a ':'
C11_Witness ==
    \E r, q \in Requests :
        /\ KeyPair(r, q)
        /\ req[r].modified_time = <<"1", ":", "0">>
        /\ req[q].modified_time = <<"1", "0">>
        /\ req[r].cache_key # req[q].cache_key

\* request r has derived its cache key from the clock
ClockKeyed(r) == req[r].cache_key # NoKey /\ req[r].modified_time = Absent

\* C12: when the metadata holds no timestamp, no two requests for the same
\* file id derive the same cache key.
C12_KeyPerAttempt ==
    \A r, q \in Requests :
        (r # q /\ ClockKeyed(r) /\ ClockKeyed(q)
         /\ req[r].file_id = req[q].file_id)
            => req[r].cache_key # req[q].cache_key

\* C13: every execution that is submitted and not yet completed is
\* registered in ongoing under the key it was submitted for.
C13_PendingRegistered ==
    \A e \in Execs :
        ~Done(e) =>
            /\ execs[e].submit_key \in DOMAIN ongoing
            /\ ongoing[execs[e].submit_key] = e

\* execution e has run line 133 after a transcode that succeeded
PastInstall(e) ==
    /\ execs[e].ran
    /\ \/ execs[e].pc = "return"
       \/ Done(e) /\ execs[e].result # Failed("transcode")

\* C14: when two executions have both installed under the same key, one
\* complete artifact exists under that key, and each of the two that has
\* completed returned the path of that artifact (none failed).
C14_BothInstall ==
    \A e, x \in Execs :
        (e # x /\ PastInstall(e) /\ PastInstall(x)
         /\ execs[e].key = execs[x].key) =>
            /\ Exists(execs[e].key)
            /\ cache[execs[e].key] = File("complete")
            /\ \A y \in {e, x} :
                 Done(y) => execs[y].result = Returned(CachePath(execs[e].key))

\* C14 witness: two executions that are running at the same time have both
\* installed under the same key and are about to return
C14_Witness ==
    \E e, x \in Execs :
        /\ e # x /\ execs[e].key = execs[x].key
        /\ execs[e].pc = "return" /\ execs[x].pc = "return"

\* C15: the step an execution takes from line 126 when the artifact of its
\* key exists completes it with the artifact's path, with no scratch file
\* created, no transcode run and the cache directory unchanged.
C15_HitReturnsAtOnce ==
    [][\A e \in Execs :
          (execs[e].pc = "exists" /\ Exists(execs[e].key)
           /\ execs'[e] # execs[e]) =>
              /\ execs'[e] = [execs[e] EXCEPT
                                 !.pc = "done",
                                 !.result = Returned(CachePath(execs[e].key))]
              /\ execs[e].input_tmp = "none" /\ execs[e].out_tmp = "none"
              /\ ~execs[e].ran
              /\ cache' = cache]_vars

\* C15 witness: an execution found the artifact of its key at line 126 and
\* returned its path
C15_Witness ==
    \E e \in Execs :
        /\ Done(e) /\ ~execs[e].ran
        /\ execs[e].result = Returned(CachePath(execs[e].key))
        /\ execs[e].input_tmp = "none" /\ execs[e].out_tmp = "none"
        /\ Exists(execs[e].key)

\* C16: at most MAX_WORKERS executions of convert_and_cache are running, and
\* a queued execution can start whenever fewer are running.
C16_PoolWidth ==
    /\ Cardinality({e \in Execs : Running(e)}) <= MAX_WORKERS
    /\ ((\E e \in Execs : execs[e].pc = "queued")
        /\ Cardinality({e \in Execs : Running(e)}) < MAX_WORKERS)
           => ENABLED (\E e \in Execs : StartExec(e))

\* C16 witness: MAX_WORKERS executions are running and another one waits in
\* the queue
C16_Witness ==
    /\ Cardinality({e \in Execs : Running(e)}) = MAX_WORKERS
    /\ \E e \in Execs : execs[e].pc = "queued"

\* request r is inside one of the with ongoing_lock blocks
HoldsLock(r) == req[r].pc \in {"locked", "cleanup"}

\* C17: under a fair scheduler, with executions that terminate, every
\* request eventually returns, and at no time do two requests hold the lock.
C17_AllReturn ==
    /\ [](Cardinality({r \in Requests : HoldsLock(r)}) <= 1)
    /\ <>(\A r \in Requests : req[r].pc \in {"done", "unused"})

\* C17 witness: more requests than the pool has threads have all returned,
\* each after its own execution
C17_Witness ==
    /\ Len(execs) > MAX_WORKERS
    /\ \A r \in Requests : req[r].pc \in {"done", "unused"}
    /\ \A e \in Execs : \E r \in Requests : req[r].fut = e

\* C18: the cache key an execution derives at line 124 is the key the
\* request registered it under.
C18_SameKey ==
    \A e \in Execs :
        execs[e].key # NoKey => execs[e].key = execs[e].submit_key

\* the file at path is a complete artifact of the cache directory
Servable(path) ==
    \E k \in DOMAIN cache : CachePath(k) = path /\ cache[k] = File("complete")

\* C19: the step in which a request ends with status 200 serves the path of
\* a file that is, at that moment, a complete artifact of the cache
\* directory.
C19_ServesInstalled ==
    [][\A r \in Requests :
          (req[r].pc # "done" /\ req'[r].pc = "done"
           /\ req'[r].response.status = 200) =>
              Servable(req'[r].response.body)]_vars

\* C19 witness: one request was served the path its future returned, another
\* the artifact it found at line 151
C19_Witness ==
    \E r, q \in Requests :
        /\ req[r].pc = "done" /\ req[r].response.status = 200
        /\ req[r].fut # NoFuture
        /\ req[q].pc = "done" /\ req[q].response.status = 200
        /\ req[q].fut = NoFuture
        /\ Servable(req[r].response.body) /\ Servable(req[q].response.body)

\* no request is between its arrival and its response
Quiet == \A r \in Requests : req[r].pc \in {"unused", "new", "done"}

\* C20: whenever no request is in progress, ongoing is empty.
C20_EmptyWhenQuiet == Quiet => ongoing = NoFiles

\* C20 witness: no request is in progress after three requests that waited
\* on futures, one of which failed and one of which returned a path
C20_Witness ==
    /\ Quiet
    /\ Cardinality({r \in Requests : req[r].pc = "done" /\ LookedUp(r)}) >= 3
    /\ \E e, x \in Execs :
         execs[e].result.kind = "exc" /\ execs[x].result.kind = "path"
    /\ ongoing = NoFiles

====
